---------------------------- MODULE Spec2Model ----------------------------
(***************************************************************************)
(* Model of src/src/services/agent/tensor_ops.cpp: cosine_similarity,      *)
(* calculate_influence_tensor and propagate_risk.                          *)
(*                                                                         *)
(* The three functions compute in IEEE-754 binary floating point (float).  *)
(* The model keeps that arithmetic: a binary format with Precision         *)
(* significand bits and exponents ExpMin..ExpMax, gradual underflow,       *)
(* round-to-nearest-even after every operation, overflow to infinity, and  *)
(* NaN.  float itself is the format with 24 significand bits and           *)
(* exponents -126..127; the model's format is the same construction with   *)
(* fewer bits, so that every value can be enumerated.                      *)
(*                                                                         *)
(* A finite value is held as an integer count k of units 2^(-Scale), the   *)
(* spacing of the subnormal numbers; the infinities and NaN are integers   *)
(* outside the finite range.  The sign of zero is not held: nothing in the *)
(* file divides by a signed zero or inspects the sign bit, and -0 == 0.    *)
(***************************************************************************)
EXTENDS Integers, Sequences, FiniteSets

(* ------------------------- the float format --------------------------- *)

\* Significand bits, the implicit leading bit included (float: 24).
Precision == 3
\* Largest exponent (float: 127); the smallest is 1 - ExpMax, as in IEEE-754.
ExpMax == 3

ExpMin == 1 - ExpMax
\* One unit is 2^(-Scale): the smallest positive (subnormal) value.
Scale == Precision - 1 - ExpMin
\* 1.0f
One == 2 ^ Scale
\* Largest finite value (FLT_MAX), in units.
MaxFin == (2 ^ Precision - 1) * 2 ^ (ExpMax - ExpMin)
\* Smallest positive value (the least subnormal), 2^(-Scale), in units.
MinSub == One \div (2 ^ Scale)
\* Smallest positive normal value (FLT_MIN), in units.
MinNormal == 2 ^ (Precision - 1)
\* Significands are the integers below 2^Precision.
SigLimit == 2 ^ Precision

PosInf == MaxFin + 1
NegInf == 0 - PosInf
NaN == MaxFin + 2

Abs(x) == IF x < 0 THEN 0 - x ELSE x

IsNaN(x) == x = NaN
IsInf(x) == x = PosInf \/ x = NegInf
IsFinite(x) == ~IsNaN(x) /\ ~IsInf(x)

\* The spacing of the format at magnitude n/d units: the least 2^j, j >= 0,
\* with n/d < 2^(Precision + j).
RECURSIVE Spacing(_, _, _)
Spacing(n, d, s) ==
    IF n < SigLimit * s * d \/ s * SigLimit > MaxFin
    THEN s
    ELSE Spacing(n, d, 2 * s)

\* Round the non-negative rational n/d (in units) to the format: to the
\* nearest representable value, ties to the even significand; a result above
\* MaxFin is +infinity.
RoundPos(n, d) ==
    LET s == Spacing(n, d, 1)
        q == n \div (d * s)
        r == n - q * d * s
        up == 2 * r > d * s \/ (2 * r = d * s /\ q % 2 = 1)
        k == (IF up THEN q + 1 ELSE q) * s
    IN  IF k > MaxFin THEN PosInf ELSE k

\* Round the rational n/d (d > 0) of either sign.
Round(n, d) ==
    IF n < 0
    THEN LET k == RoundPos(0 - n, d) IN 0 - k
    ELSE RoundPos(n, d)

\* Whether the integer k is a value of the format.
OnGrid(k) == Abs(k) <= MaxFin /\ Round(k, 1) = k

FiniteFloats == {k \in (0 - MaxFin)..MaxFin : OnGrid(k)}
Floats == FiniteFloats \cup {PosInf, NegInf, NaN}

(* ------------------------- float arithmetic --------------------------- *)

Sign(x) == IF x < 0 THEN 0 - 1 ELSE IF x > 0 THEN 1 ELSE 0

\* a * b
FMul(a, b) ==
    IF IsNaN(a) \/ IsNaN(b) THEN NaN
    ELSE IF IsInf(a) \/ IsInf(b)
         THEN IF a = 0 \/ b = 0 THEN NaN
              ELSE IF Sign(a) * Sign(b) > 0 THEN PosInf ELSE NegInf
         ELSE Round(a * b, One)

\* a + b
FAdd(a, b) ==
    IF IsNaN(a) \/ IsNaN(b) THEN NaN
    ELSE IF IsInf(a) /\ IsInf(b) THEN (IF a = b THEN a ELSE NaN)
    ELSE IF IsInf(a) THEN a
    ELSE IF IsInf(b) THEN b
    ELSE Round(a + b, 1)

FNeg(a) == IF IsNaN(a) THEN NaN ELSE 0 - a

\* a - b
FSub(a, b) == FAdd(a, FNeg(b))

\* a / b.  A zero divisor is +0 wherever the file divides (a product of
\* square roots), so x / 0 takes the sign of x.
FDiv(a, b) ==
    IF IsNaN(a) \/ IsNaN(b) THEN NaN
    ELSE IF IsInf(a)
         THEN IF IsInf(b) THEN NaN
              ELSE IF Sign(a) * (IF b < 0 THEN 0 - 1 ELSE 1) > 0 THEN PosInf ELSE NegInf
    ELSE IF IsInf(b) THEN 0
    ELSE IF b = 0
         THEN IF a = 0 THEN NaN ELSE IF a > 0 THEN PosInf ELSE NegInf
    ELSE IF b < 0 THEN Round((0 - a) * One, 0 - b)
    ELSE Round(a * One, b)

\* The largest q with (q * s)^2 <= n, searched upward from q.
RECURSIVE RootFloor(_, _, _)
RootFloor(n, s, q) ==
    IF (q + 1) * s * (q + 1) * s <= n THEN RootFloor(n, s, q + 1) ELSE q

\* The spacing of the format at magnitude sqrt(n) units.
RECURSIVE RootSpacing(_, _)
RootSpacing(n, s) ==
    IF n < SigLimit * s * SigLimit * s THEN s
    ELSE RootSpacing(n, 2 * s)

\* std::sqrt(a), correctly rounded.  sqrt(k units) = sqrt(k * 2^Scale) units.
FSqrt(a) ==
    IF IsNaN(a) \/ a < 0 THEN NaN
    ELSE IF a = PosInf THEN PosInf
    ELSE LET n == a * One
             s == RootSpacing(n, 1)
             q == RootFloor(n, s, 0)
             \* sqrt(n) against the midpoint (q + 1/2) * s
             m == (2 * q + 1) * s
             up == 4 * n > m * m \/ (4 * n = m * m /\ q % 2 = 1)
         IN  (IF up THEN q + 1 ELSE q) * s

\* a < b, a <= b, a == b as the comparison operators of float: false when
\* either operand is NaN.
FLt(a, b) == ~IsNaN(a) /\ ~IsNaN(b) /\ a < b
FLe(a, b) == ~IsNaN(a) /\ ~IsNaN(b) /\ a <= b
FEq(a, b) == ~IsNaN(a) /\ ~IsNaN(b) /\ a = b

\* std::max in the place of std::min.
StdMax(a, b) == IF FLt(a, b) THEN b ELSE a

\* std::min(a, b): (b < a) ? b : a
StdMin(a, b) == IF FLt(b, a) THEN b ELSE a

(* --------------------------- the functions ---------------------------- *)

\* A float array of the given length holds v[1..length] for the code's
\* v[0..length-1].

\* The loop with norm_v2 accumulated from v1[i] * v2[i].
RECURSIVE cosine_sums_mixed_norm(_, _, _, _, _, _, _)
cosine_sums_mixed_norm(v1, v2, size, i, dot, norm_v1, norm_v2) ==
    IF i < size
    THEN cosine_sums_mixed_norm(v1, v2, size, i + 1,
            FAdd(dot, FMul(v1[i + 1], v2[i + 1])),
            FAdd(norm_v1, FMul(v1[i + 1], v1[i + 1])),
            FAdd(norm_v2, FMul(v1[i + 1], v2[i + 1])))
    ELSE [dot |-> dot, norm_v1 |-> norm_v1, norm_v2 |-> norm_v2]

\* The loop of cosine_similarity from index i on, entered with the three
\* running sums: their values when it ends.
RECURSIVE cosine_sums(_, _, _, _, _, _, _)
cosine_sums(v1, v2, size, i, dot, norm_v1, norm_v2) ==
    IF i < size
    THEN cosine_sums(v1, v2, size, i + 1,
            FAdd(dot, FMul(v1[i + 1], v2[i + 1])),
            FAdd(norm_v1, FMul(v1[i + 1], v1[i + 1])),
            FAdd(norm_v2, FMul(v2[i + 1], v2[i + 1])))
    ELSE [dot |-> dot, norm_v1 |-> norm_v1, norm_v2 |-> norm_v2]

\* dot, norm_v1 and norm_v2 when the loop ends.
cosine_locals(v1, v2, size) == cosine_sums(v1, v2, size, 0, 0, 0, 0)

\* The early return testing norm_v1 alone.
cosine_clamped_first_only(s) == FEq(s.norm_v1, 0)

\* The early return, on the sums s: norm_v1 == 0 || norm_v2 == 0.
cosine_clamped(s) == FEq(s.norm_v1, 0) \/ FEq(s.norm_v2, 0)

\* The divisor std::sqrt(norm_v1) * std::sqrt(norm_v2), on the sums s.
cosine_divisor(s) == FMul(FSqrt(s.norm_v1), FSqrt(s.norm_v2))

cosine_similarity(v1, v2, size) ==
    LET s == cosine_locals(v1, v2, size)
    IN  IF cosine_clamped(s) THEN 0
        ELSE FDiv(s.dot, cosine_divisor(s))

\* The influence score with a negative centrality treated as zero.
influence_nonnegative_centrality(firm_tensor, node_tensor, size, centrality) ==
    LET sim == cosine_similarity(firm_tensor, node_tensor, size)
    IN  FMul(sim, IF FLt(centrality, 0) THEN 0 ELSE centrality)

calculate_influence_tensor(firm_tensor, node_tensor, size, centrality) ==
    LET sim == cosine_similarity(firm_tensor, node_tensor, size)
    IN  FMul(sim, centrality)

\* The loop stopping one parent early.
RECURSIVE parent_loop_stops_early(_, _, _, _)
parent_loop_stops_early(parent_probs, num_parents, i, parent_p_success) ==
    IF i < num_parents - 1
    THEN parent_loop_stops_early(parent_probs, num_parents, i + 1,
                                 FMul(parent_p_success, parent_probs[i + 1]))
    ELSE parent_p_success

\* The loop of propagate_risk from index i on: parent_p_success.
RECURSIVE parent_loop(_, _, _, _)
parent_loop(parent_probs, num_parents, i, parent_p_success) ==
    IF i < num_parents
    THEN parent_loop(parent_probs, num_parents, i + 1,
                     FMul(parent_p_success, parent_probs[i + 1]))
    ELSE parent_p_success

\* The local term without the clamp at 1.
local_p_success_unclamped(local_failure_prob, multiplier) ==
    FSub(One, FMul(local_failure_prob, multiplier))

\* The local term as the failure probability, not subtracted from 1.
local_p_failure(local_failure_prob, multiplier) ==
    StdMin(One, FMul(local_failure_prob, multiplier))

\* local_p_success = 1.0f - std::min(1.0f, local_failure_prob * multiplier)
local_p_success(local_failure_prob, multiplier) ==
    FSub(One, StdMin(One, FMul(local_failure_prob, multiplier)))

\* The result without the parents' product.
propagate_risk_local_only(local_failure_prob, multiplier, parent_probs, num_parents) ==
    local_p_success(local_failure_prob, multiplier)

propagate_risk(local_failure_prob, multiplier, parent_probs, num_parents) ==
    FMul(local_p_success(local_failure_prob, multiplier),
         parent_loop(parent_probs, num_parents, 0, One))

(* ------------------------ inputs and their bounds ---------------------- *)

\* Longest vector passed to cosine_similarity and calculate_influence_tensor.
MaxLen == 2
\* Most parents passed to propagate_risk.
MaxParents == 2
\* Most nodes of a graph whose nodes are evaluated parents first.
MaxNodes == 3

Half == One \div 2
Two == 2 * One

\* Elements of the vectors given to cosine_similarity: zero, a value whose
\* square underflows, ordinary values of both signs, a value whose square
\* overflows, and the non-finite values.
VecProbe == {0, MinSub, One, 0 - One, MaxFin, PosInf, NaN}

\* Elements of firm_tensor and node_tensor, and the values of centrality.
TensorProbe == {0, MinSub, One, 0 - One, NaN}
CentralityProbe == {0, Half, 0 - One, Two, MaxFin, PosInf, NegInf, NaN}

\* Values of local_failure_prob and multiplier, and entries of parent_probs.
RiskProbe == {0, Half, One, Two, 0 - One, MaxFin, PosInf, NaN}
ParentProbe == {0, Half, One, Two, 0 - One, MaxFin, PosInf, NaN}

Arrays(S, n) == [1..n -> S]

(* ------------------------------ the state ------------------------------ *)

VARIABLES
    fn,                  \* the function called, "none" before any call
    v1, v2, size,        \* arguments of the similarity and influence calls
    centrality,
    local_failure_prob,  \* arguments of propagate_risk
    multiplier,
    parent_probs,
    num_parents,
    ret,                 \* the value the call returned
    before,              \* the earlier call a repeated call is compared with
    nodes                \* the nodes evaluated so far, parents first

vars == <<fn, v1, v2, size, centrality, local_failure_prob, multiplier,
          parent_probs, num_parents, ret, before, nodes>>

NoCall == [index |-> 0, value |-> 0, ret |-> 0]

Init ==
    /\ fn = "none"
    /\ v1 = <<>> /\ v2 = <<>> /\ size = 0
    /\ centrality = 0
    /\ local_failure_prob = 0 /\ multiplier = 0
    /\ parent_probs = <<>> /\ num_parents = 0
    /\ ret = 0
    /\ before = NoCall
    /\ nodes = <<>>

\* A call cosine_similarity(a, b, n) on two arrays of n elements.
Call_cosine_similarity ==
    /\ fn = "none"
    /\ \E n \in 0..MaxLen :
         \E a \in Arrays(VecProbe, n), b \in Arrays(VecProbe, n) :
            /\ v1' = a /\ v2' = b /\ size' = n
            /\ ret' = cosine_similarity(a, b, n)
    /\ fn' = "cosine_similarity"
    /\ UNCHANGED <<centrality, local_failure_prob, multiplier, parent_probs,
                   num_parents, before, nodes>>

\* A call calculate_influence_tensor(a, b, n, c).
Call_calculate_influence_tensor ==
    /\ fn = "none"
    /\ \E n \in 0..MaxLen :
         \E a \in Arrays(TensorProbe, n), b \in Arrays(TensorProbe, n),
            c \in CentralityProbe :
            /\ v1' = a /\ v2' = b /\ size' = n /\ centrality' = c
            /\ ret' = calculate_influence_tensor(a, b, n, c)
    /\ fn' = "calculate_influence_tensor"
    /\ UNCHANGED <<local_failure_prob, multiplier, parent_probs, num_parents,
                   before, nodes>>

\* A call propagate_risk(f, m, p, k) on an array of k parents.
Call_propagate_risk ==
    /\ fn = "none"
    /\ \E f \in RiskProbe, m \in RiskProbe, k \in 0..MaxParents :
         \E p \in Arrays(ParentProbe, k) :
            /\ local_failure_prob' = f /\ multiplier' = m
            /\ parent_probs' = p /\ num_parents' = k
            /\ ret' = propagate_risk(f, m, p, k)
    /\ fn' = "propagate_risk"
    /\ UNCHANGED <<v1, v2, size, centrality, before, nodes>>

\* The same call again with one entry parent_probs[i] replaced by a value
\* a <= parent_probs[i], everything else as it was.
Call_propagate_risk_lowered ==
    /\ fn = "propagate_risk"
    /\ \E i \in 1..num_parents, a \in ParentProbe :
         /\ FLe(a, parent_probs[i])
         /\ before' = [index |-> i, value |-> parent_probs[i], ret |-> ret]
         /\ parent_probs' = [parent_probs EXCEPT ![i] = a]
         /\ ret' = propagate_risk(local_failure_prob, multiplier,
                                  parent_probs', num_parents)
    /\ fn' = "propagate_risk_lowered"
    /\ UNCHANGED <<v1, v2, size, centrality, local_failure_prob, multiplier,
                   num_parents, nodes>>

SpecCosine == Init /\ [][Call_cosine_similarity]_vars
SpecInfluence == Init /\ [][Call_calculate_influence_tensor]_vars
SpecRisk == Init /\ [][Call_propagate_risk]_vars
NextLowered == Call_propagate_risk \/ Call_propagate_risk_lowered
SpecLowered == Init /\ [][NextLowered]_vars

\* Values of local_failure_prob and multiplier given for the nodes of a graph.
CascadeProbe == {0, MinSub, Half, One, Two, 0 - One, MaxFin}

\* The success probabilities of the nodes in ps, gathered in node order from
\* node i on: the parent_probs array the caller builds for a node.
RECURSIVE gather_parents(_, _, _)
gather_parents(ns, ps, i) ==
    IF i > Len(ns) THEN <<>>
    ELSE IF i \in ps THEN <<ns[i].prob>> \o gather_parents(ns, ps, i + 1)
    ELSE gather_parents(ns, ps, i + 1)

\* The caller evaluates one more node of a graph in topological order: its
\* parents ps are nodes already evaluated, and their results are its
\* parent_probs.  The node's local_failure_prob * multiplier is >= 0.
EvalNode ==
    /\ fn \in {"none", "cascade"}
    /\ Len(nodes) < MaxNodes
    /\ \E f \in CascadeProbe, m \in CascadeProbe, ps \in SUBSET (1..Len(nodes)) :
         /\ FLe(0, FMul(f, m))
         /\ nodes' = Append(nodes,
               [parents |-> ps,
                prob |-> propagate_risk(f, m, gather_parents(nodes, ps, 1),
                                        Cardinality(ps))])
    /\ fn' = "cascade"
    /\ UNCHANGED <<v1, v2, size, centrality, local_failure_prob, multiplier,
                   parent_probs, num_parents, ret, before>>

NextCascade == Call_propagate_risk \/ EvalNode
SpecCascade == Init /\ [][NextCascade]_vars

(* ------------------------------- claims ------------------------------- *)

\* v[0..n-1] is the all-zero vector.
IsZeroVector(v, n) == \A i \in 1..n : v[i] = 0
\* Every element of v[0..n-1] is a finite number.
AllFinite(v, n) == \A i \in 1..n : IsFinite(v[i])

\* The product of p[0..k-1] taken in index order, 1 for k = 0.
RECURSIVE ProductOf(_, _)
ProductOf(p, k) == IF k = 0 THEN One ELSE FMul(ProductOf(p, k - 1), p[k])

\* 1 - min(1, f * m)
LocalTerm(f, m) ==
    LET x == FMul(f, m) IN FSub(One, IF FLt(x, One) THEN x ELSE One)

\* C1: cosine_similarity returns exactly 0 when v1 or v2 is the all-zero
\* vector, whatever the other vector holds (NaN and infinities included),
\* and whenever it does divide, neither square root nor their product, the
\* divisor, is zero.
C1_ZeroVectorGivesZero ==
    fn = "cosine_similarity" =>
        LET s == cosine_locals(v1, v2, size)
        IN  /\ (IsZeroVector(v1, size) \/ IsZeroVector(v2, size)) => ret = 0
            /\ ~cosine_clamped(s) =>
                  /\ FSqrt(s.norm_v1) # 0
                  /\ FSqrt(s.norm_v2) # 0
                  /\ cosine_divisor(s) # 0

\* C1 witness: a call with v1 all-zero and v2 holding NaN returned 0.
C1_Witness ==
    /\ fn = "cosine_similarity" /\ size = 2
    /\ IsZeroVector(v1, size) /\ v2[1] = NaN /\ v2[2] = One
    /\ ret = 0

\* C7: cosine_similarity(v1, v2, n) is the value of cosine_similarity(v2, v1, n).
C7_Symmetric ==
    fn = "cosine_similarity" => ret = cosine_similarity(v2, v1, size)

\* C7 witness: a call on two different vectors whose result is none of
\* 0, 1, -1 and NaN.
C7_Witness ==
    /\ fn = "cosine_similarity" /\ size = 2 /\ v1 # v2
    /\ IsFinite(ret) /\ ret \notin {0, One, 0 - One}

\* C8, as claimed: cosine_similarity(v, v, n) == 1.0 for every v with a
\* non-zero element (stated here for vectors of finite elements only).
C8_SelfSimilarityIsOne ==
    (/\ fn = "cosine_similarity"
     /\ v1 = v2 /\ AllFinite(v1, size) /\ ~IsZeroVector(v1, size))
        => ret = One

\* C9, as claimed: the result of cosine_similarity lies in [-1, 1] (stated
\* here for vectors of finite elements only).
C9_ResultInUnitRange ==
    (fn = "cosine_similarity" /\ AllFinite(v1, size) /\ AllFinite(v2, size))
        => FLe(0 - One, ret) /\ FLe(ret, One)

\* C4, as claimed: calculate_influence_tensor(v1, v2, n, c) is
\* cosine_similarity(v1, v2, n) * c for every c, and it is 0 whatever c is
\* when either vector is all-zero.
C4_InfluenceZeroForAnyCentrality ==
    fn = "calculate_influence_tensor" =>
        /\ ret = FMul(cosine_similarity(v1, v2, size), centrality)
        /\ (IsZeroVector(v1, size) \/ IsZeroVector(v2, size)) => ret = 0

\* C4, amended: calculate_influence_tensor(v1, v2, n, c) is
\* cosine_similarity(v1, v2, n) * c for every c, and it is 0 for every
\* finite c when either vector is all-zero.
C4_InfluenceZeroForFiniteCentrality ==
    fn = "calculate_influence_tensor" =>
        /\ ret = FMul(cosine_similarity(v1, v2, size), centrality)
        /\ ((IsZeroVector(v1, size) \/ IsZeroVector(v2, size))
              /\ IsFinite(centrality)) => ret = 0

\* C4 witness: a call with an all-zero firm_tensor, a non-zero node_tensor
\* and a negative centrality returned 0.
C4_Witness ==
    /\ fn = "calculate_influence_tensor" /\ size = 2
    /\ IsZeroVector(v1, size) /\ ~IsZeroVector(v2, size)
    /\ centrality = 0 - One
    /\ ret = 0

\* C2: propagate_risk returns (1 - min(1, f * m)) times the product of
\* parent_probs[0..num_parents-1], and with no parents 1 - min(1, f * m).
C2_RiskFormula ==
    fn = "propagate_risk" =>
        /\ ret = FMul(LocalTerm(local_failure_prob, multiplier),
                      ProductOf(parent_probs, num_parents))
        /\ num_parents = 0 => ret = LocalTerm(local_failure_prob, multiplier)

\* C2 witness: propagate_risk(0.5, 1, [0.5, 0.5], 2) returned 0.125.
C2_Witness ==
    /\ fn = "propagate_risk" /\ num_parents = 2
    /\ local_failure_prob = Half /\ multiplier = One
    /\ parent_probs = <<Half, Half>>
    /\ ret = Half \div 4

\* C3: the local success term is never negative, it is 0 whenever
\* local_failure_prob * multiplier >= 1, and then with no parents the
\* result is 0.
C3_LocalTermClamped ==
    fn = "propagate_risk" =>
        LET local == local_p_success(local_failure_prob, multiplier)
        IN  /\ FLe(0, local)
            /\ FLe(One, FMul(local_failure_prob, multiplier)) =>
                  /\ local = 0
                  /\ num_parents = 0 => ret = 0

\* C3 witness: propagate_risk(2, 1, [], 0) returned 0.
C3_Witness ==
    /\ fn = "propagate_risk" /\ num_parents = 0
    /\ local_failure_prob = Two /\ multiplier = One
    /\ ret = 0

\* C6, as claimed: propagate_risk(0, m, parents, k) is the product of
\* parents[0..k-1] for any multiplier m.
C6_ZeroFailureAnyMultiplier ==
    (fn = "propagate_risk" /\ local_failure_prob = 0)
        => ret = ProductOf(parent_probs, num_parents)

\* C6, amended: propagate_risk(0, m, parents, k) is the product of
\* parents[0..k-1] for any finite multiplier m.
C6_ZeroFailureFiniteMultiplier ==
    (fn = "propagate_risk" /\ local_failure_prob = 0 /\ IsFinite(multiplier))
        => ret = ProductOf(parent_probs, num_parents)

\* C6 witness: propagate_risk(0, 2, [0.5, 2], 2) returned 1.
C6_Witness ==
    /\ fn = "propagate_risk" /\ num_parents = 2
    /\ local_failure_prob = 0 /\ multiplier = Two
    /\ parent_probs = <<Half, Two>>
    /\ ret = One

\* The number of negative entries of p[0..k-1] other than entry i is even.
EvenNegativesBeside(p, k, i) ==
    Cardinality({j \in 1..k : j # i /\ FLt(p[j], 0)}) % 2 = 0

RECURSIVE Ancestors(_, _)
Ancestors(ns, n) ==
    ns[n].parents \cup UNION {Ancestors(ns, q) : q \in ns[n].parents}

\* C10: when local_failure_prob * multiplier >= 0 and every parent_probs[i]
\* lies in [0, 1], propagate_risk returns a value in [0, 1] that is <= every
\* parent_probs[i]; and in a graph evaluated parents first every node's
\* success probability lies in [0, 1], is <= that of each of its ancestors,
\* and is 0 when an ancestor's is 0.
C10_CascadeClosed ==
    /\ (/\ fn = "propagate_risk"
        /\ FLe(0, FMul(local_failure_prob, multiplier))
        /\ \A i \in 1..num_parents :
              FLe(0, parent_probs[i]) /\ FLe(parent_probs[i], One))
          => /\ FLe(0, ret) /\ FLe(ret, One)
             /\ \A i \in 1..num_parents : FLe(ret, parent_probs[i])
    /\ \A n \in 1..Len(nodes) :
          /\ FLe(0, nodes[n].prob) /\ FLe(nodes[n].prob, One)
          /\ \A a \in Ancestors(nodes, n) :
                /\ FLe(nodes[n].prob, nodes[a].prob)
                /\ nodes[a].prob = 0 => nodes[n].prob = 0

\* C10 witness: a chain of three nodes whose success probabilities strictly
\* decrease and stay above 0.
C10_Witness ==
    /\ Len(nodes) = 3
    /\ nodes[2].parents = {1} /\ nodes[3].parents = {2}
    /\ FLt(nodes[2].prob, nodes[1].prob)
    /\ FLt(nodes[3].prob, nodes[2].prob)
    /\ FLt(0, nodes[3].prob)

=============================================================================
